---- MODULE Spec2Model ----
(***************************************************************************)
(* Zoom attendance engine (netlify/functions/process/logic.py).            *)
(*                                                                         *)
(* Timestamps are whole seconds (integers >= 0); Missing stands for a join *)
(* or leave time that is None/NaT.  Minute-valued floats of the program    *)
(* (attended minutes, thresholds) are fixed-point integers counting        *)
(* 1/MinuteUnits of a minute, which is exact for whole seconds and for     *)
(* hundredths of a minute.                                                 *)
(***************************************************************************)
EXTENDS Integers, Sequences, FiniteSets, TLC

VARIABLES
    pc,         \* position of the run
    A, B,       \* interval lists handed to the Interval Engine
    ret,        \* what the last Interval Engine call returned
    records,    \* session_records_by_key[k] of the identity under analysis
    analysis,   \* what the per-identity block of the verdict loop computed for it
    conf,       \* the parameters of process_zoom_attendance
    run,        \* run-level values: total, adjusted total, thresholds, rounding mode
    verdict,    \* the status block of the verdict loop for one identity
    rows,       \* the rows of the Zoom log that remain after the exclusions
    by_key,     \* the *_by_key dictionaries, one record per identity key
    key_order,  \* the insertion order of names_by_key
    pending,    \* the name keys the alias loop has still to visit, in its order
    alias_merges,       \* (source, target) in merge order
    ambiguous_aliases,  \* name keys that no ID key could take
    attendance_rows,    \* the Attendance sheet, with the Match Source of each row
    present_erps,       \* the IDs that got a verdict from the log
    roster_df,  \* what load_roster returned
    req,        \* a request: the adapter called, the columns and cells of the log, the override
    out_file,   \* the file at output_xlsx: "absent", "partial" or "complete"
    raised,     \* the exception that left process_request, "" when none did
    resp        \* what the adapter answered

engineVars == <<A, B, ret>>
studentVars == <<records, analysis>>
decideVars == <<conf, run, verdict>>
pipelineVars ==
    <<rows, by_key, key_order, pending, alias_merges, ambiguous_aliases,
      attendance_rows, present_erps, roster_df>>
requestVars == <<req, out_file, raised, resp>>
vars ==
    <<pc, A, B, ret, records, analysis, conf, run, verdict, rows, by_key, key_order,
      pending, alias_merges, ambiguous_aliases, attendance_rows, present_erps, roster_df,
      req, out_file, raised, resp>>

----------------------------------------------------------------------------
(* Units *)

SecondsPerMinute == 60
MinuteUnits == SecondsPerMinute * 100
UnitsPerSecond == MinuteUnits \div SecondsPerMinute

Missing == -1

Max2(a, b) == IF a >= b THEN a ELSE b

Range(f) == {f[i] : i \in DOMAIN f}

----------------------------------------------------------------------------
(* Values of the variables a part of the program does not use *)

NoRet == [fn |-> "none", val |-> 0]
NoAnalysis == [done |-> FALSE]
NoRun == [done |-> FALSE]
NoVerdict == [done |-> FALSE]

\* the defaults of process_zoom_attendance (line 319); threshold_ratio is in fifths
DefaultConf ==
    [threshold_ratio |-> 4, buffer_minutes |-> 0, break_minutes |-> 0,
     rounding_mode |-> "none", penalty_tolerance_minutes |-> 0, exemptions |-> <<>>]

EngineIdle == A = <<>> /\ B = <<>> /\ ret = NoRet
StudentIdle == records = <<>> /\ analysis = NoAnalysis
DecideIdle == conf = DefaultConf /\ run = NoRun /\ verdict = NoVerdict
PipelineIdle ==
    /\ rows = <<>> /\ by_key = <<>> /\ key_order = <<>> /\ pending = <<>>
    /\ alias_merges = <<>> /\ ambiguous_aliases = {}
    /\ attendance_rows = <<>> /\ present_erps = {} /\ roster_df = <<>>
NoRequest == [adapter |-> "none"]
NoResponse == [sent |-> FALSE]
RequestIdle == req = NoRequest /\ out_file = "absent" /\ raised = "" /\ resp = NoResponse

----------------------------------------------------------------------------
(* Interval Engine *)

\* the filter of _merge_intervals: both ends present and end after start
IsValidInterval(iv) == iv[1] # Missing /\ iv[2] # Missing /\ iv[2] > iv[1]

RECURSIVE InsertByStart(_, _)
\* list.sort(key=start) is stable: x goes after every entry whose start is <= its own
InsertByStart(sorted, x) ==
    IF sorted = <<>> THEN <<x>>
    ELSE IF Head(sorted)[1] <= x[1]
         THEN <<Head(sorted)>> \o InsertByStart(Tail(sorted), x)
         ELSE <<x>> \o sorted

RECURSIVE SortByStart(_)
SortByStart(ints) ==
    IF ints = <<>> THEN <<>>
    ELSE InsertByStart(SortByStart(SubSeq(ints, 1, Len(ints) - 1)), ints[Len(ints)])

RECURSIVE MergeSweepNoTouch(_, _, _, _, _)
\* the sweep with s<cur_e: touching intervals are left apart
MergeSweepNoTouch(ints, i, cur_s, cur_e, merged) ==
    IF i > Len(ints) THEN Append(merged, <<cur_s, cur_e>>)
    ELSE LET s == ints[i][1]
             e == ints[i][2]
         IN  IF s < cur_e
             THEN MergeSweepNoTouch(ints, i + 1, cur_s, IF e > cur_e THEN e ELSE cur_e, merged)
             ELSE MergeSweepNoTouch(ints, i + 1, s, e, Append(merged, <<cur_s, cur_e>>))

RECURSIVE MergeSweep(_, _, _, _, _)
\* the loop "for s,e in ints[1:]" with its running (cur_s, cur_e)
MergeSweep(ints, i, cur_s, cur_e, merged) ==
    IF i > Len(ints) THEN Append(merged, <<cur_s, cur_e>>)
    ELSE LET s == ints[i][1]
             e == ints[i][2]
         IN  IF s <= cur_e
             THEN MergeSweep(ints, i + 1, cur_s, IF e > cur_e THEN e ELSE cur_e, merged)
             ELSE MergeSweep(ints, i + 1, s, e, Append(merged, <<cur_s, cur_e>>))

_merge_intervals(intervals) ==
    LET ints == SortByStart(SelectSeq(intervals, IsValidInterval))
    IN  IF ints = <<>> THEN <<>>
        ELSE MergeSweep(ints, 2, ints[1][1], ints[1][2], <<>>)

RECURSIVE _minutes(_)
_minutes(intervals) ==
    IF intervals = <<>> THEN 0
    ELSE (Head(intervals)[2] - Head(intervals)[1]) * UnitsPerSecond + _minutes(Tail(intervals))

\* the attended minutes as the sum of the sessions, not of their union
SumOfSessionMinutes(intervals) == _minutes(SelectSeq(intervals, IsValidInterval))

_interval_union_minutes(intervals) == _minutes(_merge_intervals(intervals))

RECURSIVE OverlapScanTouching(_, _, _)
\* the scan with s<=prev_e: touching intervals count as overlapping
OverlapScanTouching(ints, i, prev_e) ==
    IF i > Len(ints) THEN FALSE
    ELSE IF ints[i][1] <= prev_e THEN TRUE
    ELSE OverlapScanTouching(ints, i + 1, Max2(prev_e, ints[i][2]))

RECURSIVE OverlapScan(_, _, _)
\* the loop of _has_any_overlap_raw with its running latest end
OverlapScan(ints, i, prev_e) ==
    IF i > Len(ints) THEN FALSE
    ELSE IF ints[i][1] < prev_e THEN TRUE
    ELSE OverlapScan(ints, i + 1, Max2(prev_e, ints[i][2]))

_has_any_overlap_raw(intervals) ==
    LET ints == SortByStart(SelectSeq(intervals, IsValidInterval))
    IN  IF Len(ints) < 2 THEN FALSE
        ELSE OverlapScan(ints, 2, ints[1][2])

RECURSIVE NearScanStrictGap(_, _, _, _, _)
\* the two-pointer loop with a gap of exactly the tolerance taken as too wide
NearScanStrictGap(mA, mB, i, j, gap) ==
    IF ~(i <= Len(mA) /\ j <= Len(mB)) THEN FALSE
    ELSE LET a_s == mA[i][1]
             a_e == mA[i][2]
             b_s == mB[j][1]
             b_e == mB[j][2]
         IN  IF a_e >= b_s /\ b_e >= a_s THEN TRUE
             ELSE IF a_e < b_s
                  THEN IF (b_s - a_e) < gap THEN TRUE
                       ELSE NearScanStrictGap(mA, mB, i + 1, j, gap)
             ELSE IF b_e < a_s
                  THEN IF (a_s - b_e) < gap THEN TRUE
                       ELSE NearScanStrictGap(mA, mB, i, j + 1, gap)
             ELSE IF a_e < b_e THEN NearScanStrictGap(mA, mB, i + 1, j, gap)
                  ELSE NearScanStrictGap(mA, mB, i, j + 1, gap)

RECURSIVE NearScan(_, _, _, _, _)
\* the two-pointer loop of _intervals_overlap_or_close; gap is in seconds
NearScan(mA, mB, i, j, gap) ==
    IF ~(i <= Len(mA) /\ j <= Len(mB)) THEN FALSE
    ELSE LET a_s == mA[i][1]
             a_e == mA[i][2]
             b_s == mB[j][1]
             b_e == mB[j][2]
         IN  IF a_e >= b_s /\ b_e >= a_s THEN TRUE
             ELSE IF a_e < b_s
                  THEN IF (b_s - a_e) <= gap THEN TRUE
                       ELSE NearScan(mA, mB, i + 1, j, gap)
             ELSE IF b_e < a_s
                  THEN IF (a_s - b_e) <= gap THEN TRUE
                       ELSE NearScan(mA, mB, i, j + 1, gap)
             ELSE IF a_e < b_e THEN NearScan(mA, mB, i + 1, j, gap)
                  ELSE NearScan(mA, mB, i, j + 1, gap)

_intervals_overlap_or_close(iA, iB, max_gap_minutes) ==
    LET mA == _merge_intervals(iA)
        mB == _merge_intervals(iB)
    IN  IF mA = <<>> \/ mB = <<>> THEN FALSE
        ELSE NearScan(mA, mB, 1, 1, max_gap_minutes * SecondsPerMinute)

RECURSIVE MinusScan(_, _, _, _, _, _)
\* the nested loops of _minutes_A_minus_B: i walks A, cur walks inside A[i], and j
\* walks B and is never moved back; total is in seconds here
MinusScan(mA, mB, i, cur, j, total) ==
    LET a_e == mA[i][2]
        leave(c, jj, t) ==
            LET t2 == IF c < a_e THEN t + (a_e - c) ELSE t
            IN  IF i = Len(mA) THEN t2
                ELSE MinusScan(mA, mB, i + 1, mA[i + 1][1], jj, t2)
    IN  IF cur < a_e /\ j <= Len(mB)
        THEN LET b_s == mB[j][1]
                 b_e == mB[j][2]
             IN  IF b_e <= cur THEN MinusScan(mA, mB, i, cur, j + 1, total)
                 ELSE IF b_s >= a_e THEN leave(cur, j, total)
                 ELSE LET t1 == IF b_s > cur THEN total + (b_s - cur) ELSE total
                          cur1 == Max2(cur, b_e)
                          j1 == IF b_e <= cur1 THEN j + 1 ELSE j
                      IN  MinusScan(mA, mB, i, cur1, j1, t1)
        ELSE leave(cur, j, total)

_minutes_A_minus_B(iA, iB) ==
    LET mA == _merge_intervals(iA)
        mB == _merge_intervals(iB)
    IN  IF mA = <<>> THEN 0
        ELSE IF mB = <<>> THEN _minutes(mA)
        ELSE MinusScan(mA, mB, 1, mA[1][1], 1, 0) * UnitsPerSecond

----------------------------------------------------------------------------
(* Identity Normalizer.  A string is a sequence of one-character strings; the only
   whitespace in the names of the model is the blank. *)

UpperCase ==
    <<"A", "B", "C", "D", "E", "F", "G", "H", "I", "J", "K", "L", "M",
      "N", "O", "P", "Q", "R", "S", "T", "U", "V", "W", "X", "Y", "Z">>
LowerCase ==
    <<"a", "b", "c", "d", "e", "f", "g", "h", "i", "j", "k", "l", "m",
      "n", "o", "p", "q", "r", "s", "t", "u", "v", "w", "x", "y", "z">>
DigitChars == {"0", "1", "2", "3", "4", "5", "6", "7", "8", "9"}

IsSpace(c) == c = " "
IsDigit(c) == c \in DigitChars
IsLowerLetter(c) == c \in Range(LowerCase)

ToLower(c) ==
    IF \E i \in DOMAIN UpperCase : UpperCase[i] = c
    THEN LowerCase[CHOOSE i \in DOMAIN UpperCase : UpperCase[i] = c]
    ELSE c

\* str.lower
lower(s) == [i \in 1..Len(s) |-> ToLower(s[i])]

RECURSIVE lstrip(_)
lstrip(s) == IF s # <<>> /\ IsSpace(Head(s)) THEN lstrip(Tail(s)) ELSE s

RECURSIVE rstrip(_)
rstrip(s) ==
    IF s # <<>> /\ IsSpace(s[Len(s)]) THEN rstrip(SubSeq(s, 1, Len(s) - 1)) ELSE s

\* str.strip
strip(s) == rstrip(lstrip(s))

RECURSIVE SubSpaceRuns(_)
\* re.sub(r"\s+", " ", s)
SubSpaceRuns(s) ==
    IF s = <<>> THEN <<>>
    ELSE IF IsSpace(Head(s)) THEN <<" ">> \o SubSpaceRuns(lstrip(s))
    ELSE <<Head(s)>> \o SubSpaceRuns(Tail(s))

\* the index of the first ")" of s, 0 when there is none
FirstClose(s) ==
    IF \E i \in DOMAIN s : s[i] = ")"
    THEN CHOOSE i \in DOMAIN s : s[i] = ")" /\ \A j \in 1..(i - 1) : s[j] # ")"
    ELSE 0

RECURSIVE SubParens(_)
\* re.sub(r"\([^)]*\)", " ", s)
SubParens(s) ==
    IF s = <<>> THEN <<>>
    ELSE IF Head(s) = "(" /\ FirstClose(s) > 0
         THEN <<" ">> \o SubParens(SubSeq(s, FirstClose(s) + 1, Len(s)))
         ELSE <<Head(s)>> \o SubParens(Tail(s))

StartsWithFiveDigits(s) == Len(s) >= 5 /\ \A i \in 1..5 : IsDigit(s[i])

RECURSIVE SubFiveDigits(_)
\* re.sub(r"\d{5}", " ", s)
SubFiveDigits(s) ==
    IF s = <<>> THEN <<>>
    ELSE IF StartsWithFiveDigits(s) THEN <<" ">> \o SubFiveDigits(SubSeq(s, 6, Len(s)))
    ELSE <<Head(s)>> \o SubFiveDigits(Tail(s))

\* re.sub(r"[_\-]", " ", s)
SubDashes(s) == [i \in 1..Len(s) |-> IF s[i] \in {"_", "-"} THEN " " ELSE s[i]]

RECURSIVE SkipNonLetters(_)
SkipNonLetters(s) ==
    IF s # <<>> /\ ~IsLowerLetter(Head(s)) THEN SkipNonLetters(Tail(s)) ELSE s

RECURSIVE SubNonLetters(_)
\* re.sub(r"[^a-z]+", " ", s)
SubNonLetters(s) ==
    IF s = <<>> THEN <<>>
    ELSE IF IsLowerLetter(Head(s)) THEN <<Head(s)>> \o SubNonLetters(Tail(s))
    ELSE <<" ">> \o SubNonLetters(SkipNonLetters(s))

_canon_name(s) ==
    strip(SubSpaceRuns(SubNonLetters(SubDashes(SubFiveDigits(SubParens(lower(s)))))))

_norm_name_spaces_only(s) == SubSpaceRuns(lower(strip(s)))

IsSeparator(c) == IsSpace(c) \/ c \in {"-", "_"}

RECURSIVE SkipSeparators(_)
SkipSeparators(s) ==
    IF s # <<>> /\ IsSeparator(Head(s)) THEN SkipSeparators(Tail(s)) ELSE s

\* re.match(r"^\s*(\d{5})[\s\-_]+(.+?)\s*$", name) on the stripped name: five digits,
\* separators, and a rest that takes back the last separator when nothing follows
_name_to_erp_and_clean(name) ==
    LET n == strip(name)
        after == SubSeq(n, 6, Len(n))
        rest == SkipSeparators(after)
        group2 == IF rest # <<>> THEN rest ELSE <<n[Len(n)]>>
        matches == /\ StartsWithFiveDigits(n)
                   /\ after # <<>> /\ IsSeparator(Head(after))
                   /\ (rest # <<>> \/ Len(after) >= 2)
    IN  IF matches
        THEN [erp |-> SubSeq(n, 1, 5), clean_name |-> strip(group2), pen_flag |-> 0]
        ELSE [erp |-> <<>>, clean_name |-> n, pen_flag |-> -1]

ErpPrefix == <<"E", "R", "P", ":">>
NamePrefix == <<"N", "A", "M", "E", ":">>

\* k.startswith("ERP:")
IsErpKey(k) == Len(k) >= Len(ErpPrefix) /\ SubSeq(k, 1, Len(ErpPrefix)) = ErpPrefix

\* key_of (lines 369-371), from the parsed name; no code is the empty string here
key_of(parsed) ==
    IF parsed.erp # <<>> THEN ErpPrefix \o parsed.erp
    ELSE NamePrefix \o _norm_name_spaces_only(parsed.clean_name)

\* the columns _erp, _clean_name, _pen_flag, _canon, _key of a row (lines 362-372)
ParseRawName(raw_name) ==
    LET parsed == _name_to_erp_and_clean(raw_name)
    IN  [erp |-> parsed.erp,
         clean_name |-> parsed.clean_name,
         pen_flag |-> parsed.pen_flag,
         canon |-> _canon_name(parsed.clean_name),
         key |-> key_of(parsed)]

(* The display names of the log and the lines of the roster *)
Name10001 == <<"1", "0", "0", "0", "1", " ", "-", " ", "J", "a", "n", "e", " ", "D", "o", "e">>
Name10002 == <<"1", "0", "0", "0", "2", "_", "j", "a", "n", "e", " ", "d", "o", "e">>
NameUpper == <<"J", "A", "N", "E", " ", " ", "D", "O", "E">>
NameOther == <<"A", "l", "i", "-", "K", "H", "A", "N", " ", "(", "2", "2", ")">>

RawNames == {Name10001, Name10002, NameUpper, NameOther}

NameInfo == [n \in RawNames |-> ParseRawName(n)]

\* _canon_name of the display names as they are in the log (line 639)
RawCanon == [n \in RawNames |-> _canon_name(n)]

----------------------------------------------------------------------------
(* Decision Engine: thresholds and the status rule *)

\* minute-valued inputs written in whole minutes and in hundredths of a minute
Minutes(m) == m * MinuteUnits
Hundredths(h) == h * (MinuteUnits \div 100)

\* math.ceil of a minute value
CeilMinutes(x) == ((x + MinuteUnits - 1) \div MinuteUnits) * MinuteUnits

\* an unrecognised mode taken for the strictest rounding
UnknownModeCeilsBoth(rounding_mode) ==
    IF rounding_mode \in {"none", "ceil_attendance", "ceil_both"}
    THEN rounding_mode ELSE "ceil_both"

\* lines 320-321
NormalizeRoundingMode(rounding_mode) ==
    IF rounding_mode \in {"none", "ceil_attendance", "ceil_both"} THEN rounding_mode ELSE "none"

\* the run values with break and buffer taken as given, negative or not
RunValuesUnclamped(c, total_class_minutes) ==
    LET adjusted_total_minutes == Max2(total_class_minutes - c.break_minutes, Minutes(1))
        threshold_minutes_raw == (c.threshold_ratio * adjusted_total_minutes) \div 5
    IN  [done |-> TRUE,
         rounding_mode |-> NormalizeRoundingMode(c.rounding_mode),
         total_class_minutes |-> total_class_minutes,
         break_minutes |-> c.break_minutes,
         adjusted_total_minutes |-> adjusted_total_minutes,
         threshold_minutes_raw |-> threshold_minutes_raw,
         buffer_minutes |-> c.buffer_minutes,
         effective_threshold_minutes |-> Max2(0, threshold_minutes_raw - c.buffer_minutes)]

\* lines 356-360; threshold_ratio is held in fifths (4 is 0.8)
RunValues(c, total_class_minutes) ==
    LET break_minutes == Max2(0, c.break_minutes)
        adjusted_total_minutes == Max2(total_class_minutes - break_minutes, Minutes(1))
        threshold_minutes_raw == (c.threshold_ratio * adjusted_total_minutes) \div 5
        buffer_minutes == Max2(0, c.buffer_minutes)
    IN  [done |-> TRUE,
         rounding_mode |-> NormalizeRoundingMode(c.rounding_mode),
         total_class_minutes |-> total_class_minutes,
         break_minutes |-> break_minutes,
         adjusted_total_minutes |-> adjusted_total_minutes,
         threshold_minutes_raw |-> threshold_minutes_raw,
         buffer_minutes |-> buffer_minutes,
         effective_threshold_minutes |-> Max2(0, threshold_minutes_raw - buffer_minutes)]

\* Present only above the threshold, not at it
MeetsStrictly(union_min_decision, thr_decision) == union_min_decision > thr_decision

\* line 558
Meets(union_min_decision, thr_decision) == union_min_decision >= thr_decision

\* lines 547-560
StatusBlock(rounding_mode, eff_thr_raw, union_min_raw, is_amb) ==
    LET union_min_decision == IF rounding_mode \in {"ceil_attendance", "ceil_both"}
                              THEN CeilMinutes(union_min_raw) ELSE union_min_raw
        thr_decision == IF rounding_mode = "ceil_both"
                        THEN CeilMinutes(eff_thr_raw) ELSE eff_thr_raw
        meets == Meets(union_min_decision, thr_decision)
    IN  [done |-> TRUE,
         union_min_raw |-> union_min_raw,
         is_amb |-> is_amb,
         union_min_decision |-> union_min_decision,
         thr_decision |-> thr_decision,
         meets |-> meets,
         attendance_status |-> IF is_amb THEN "Needs Review"
                               ELSE IF meets THEN "Present" ELSE "Absent"]

(* Inputs of the decision: attended minutes sweep the hundredths of a minute from
   80.01 down to 80.01 - MaxProbe/100. *)
MaxProbe == 61

RoundingModes == {"none", "ceil_attendance", "ceil_both", "floor"}
RatioChoices == {4, 5}
BreakChoices == {Minutes(-5), 0, Minutes(200)}
BufferChoices == {Minutes(-5), 0, Hundredths(40), Minutes(200)}
TotalChoices == {Minutes(100), Hundredths(9950)}
AttendedChoices == {Hundredths(80 * 100 + 1 - d) : d \in 0..MaxProbe}

ConfChoices ==
    [threshold_ratio : RatioChoices, buffer_minutes : BufferChoices,
     break_minutes : BreakChoices, rounding_mode : RoundingModes,
     penalty_tolerance_minutes : {0}, exemptions : {<<>>}]

DecideInit ==
    /\ pc = "configured"
    /\ conf \in ConfChoices
    /\ run = NoRun
    /\ verdict = NoVerdict
    /\ EngineIdle
    /\ StudentIdle
    /\ PipelineIdle
    /\ RequestIdle

ComputeThresholds ==
    /\ pc = "configured"
    /\ pc' = "thresholds"
    /\ \E total \in TotalChoices : run' = RunValues(conf, total)
    /\ UNCHANGED <<conf, verdict>>
    /\ UNCHANGED <<engineVars, studentVars, pipelineVars, requestVars>>

DecideStatus ==
    /\ pc = "thresholds"
    /\ pc' = "decided"
    /\ \E attended \in AttendedChoices, amb \in BOOLEAN :
          verdict' = StatusBlock(run.rounding_mode, run.effective_threshold_minutes,
                                 attended, amb)
    /\ UNCHANGED <<conf, run>>
    /\ UNCHANGED <<engineVars, studentVars, pipelineVars, requestVars>>

DecideNext == ComputeThresholds \/ DecideStatus

SpecDecide == DecideInit /\ [][DecideNext]_vars

\* the least whole number of minutes that is not below x, found by search
CeilRef(x) ==
    Minutes(CHOOSE m \in 0..(2 * 100) : Minutes(m) >= x /\ Minutes(m - 1) < x)

(* C1: decision-attended is attendedRaw under 'none' and ceil(attendedRaw) under
   'ceil_attendance' and 'ceil_both'; decision-threshold is effectiveThreshold under
   'none' and 'ceil_attendance' and ceil(effectiveThreshold) under 'ceil_both'; the
   status is 'Needs Review' for an ambiguous key whatever the minutes, otherwise
   'Present' iff decision-attended >= decision-threshold, otherwise 'Absent'.  With
   threshold 80: 79.99 is Absent, 80.00 is Present, 79.4 under ceil_attendance is
   Present. *)
StatusFollowsRoundedComparison ==
    (verdict.done /\ conf.rounding_mode \in {"none", "ceil_attendance", "ceil_both"}) =>
        LET att == IF conf.rounding_mode = "none" THEN verdict.union_min_raw
                   ELSE CeilRef(verdict.union_min_raw)
            thr == IF conf.rounding_mode = "ceil_both"
                   THEN CeilRef(run.effective_threshold_minutes)
                   ELSE run.effective_threshold_minutes
            eighty == run.effective_threshold_minutes = Minutes(80) /\ ~verdict.is_amb
        IN  /\ verdict.union_min_decision = att
            /\ verdict.thr_decision = thr
            /\ verdict.attendance_status =
                  IF verdict.is_amb THEN "Needs Review"
                  ELSE IF att >= thr THEN "Present" ELSE "Absent"
            /\ (eighty /\ conf.rounding_mode = "none"
                       /\ verdict.union_min_raw = Hundredths(7999))
                  => verdict.attendance_status = "Absent"
            /\ (eighty /\ conf.rounding_mode = "none"
                       /\ verdict.union_min_raw = Hundredths(8000))
                  => verdict.attendance_status = "Present"
            /\ (eighty /\ conf.rounding_mode = "ceil_attendance"
                       /\ verdict.union_min_raw = Hundredths(7940))
                  => verdict.attendance_status = "Present"

\* thresholdRatio 0.8 of an adjusted total of 100 minutes, 79.4 minutes attended,
\* ceil_attendance: decided on 80 >= 80 and Present
CeilAttendanceWitness ==
    /\ verdict.done
    /\ conf.threshold_ratio = 4
    /\ run.adjusted_total_minutes = Minutes(100)
    /\ run.effective_threshold_minutes = Minutes(80)
    /\ conf.rounding_mode = "ceil_attendance"
    /\ verdict.union_min_raw = Hundredths(7940)
    /\ verdict.union_min_decision = Minutes(80)
    /\ ~verdict.is_amb
    /\ verdict.attendance_status = "Present"

\* C15: a rounding mode other than 'none', 'ceil_attendance' and 'ceil_both' is
\* worked with as 'none': the thresholds, the decision minutes and the status are
\* those that mode 'none' gives for the same parameters, total and attended minutes.
UnknownRoundingModeActsAsNone ==
    (conf.rounding_mode \notin {"none", "ceil_attendance", "ceil_both"}) =>
        LET asNone == [conf EXCEPT !.rounding_mode = "none"]
        IN  /\ run.done => run = RunValues(asNone, run.total_class_minutes)
            /\ verdict.done =>
                  /\ verdict = StatusBlock("none", run.effective_threshold_minutes,
                                           verdict.union_min_raw, verdict.is_amb)
                  /\ verdict.union_min_decision = verdict.union_min_raw
                  /\ verdict.thr_decision = run.effective_threshold_minutes
                  /\ verdict.attendance_status =
                        IF verdict.is_amb THEN "Needs Review"
                        ELSE IF verdict.union_min_raw >= run.effective_threshold_minutes
                             THEN "Present" ELSE "Absent"

\* mode 'floor', 79.4 minutes attended against a threshold of 80: Absent, as under
\* 'none', where the ceiling modes would give Present
FloorModeDecidedAsNone ==
    /\ verdict.done
    /\ conf.rounding_mode = "floor"
    /\ run.effective_threshold_minutes = Minutes(80)
    /\ verdict.union_min_raw = Hundredths(7940)
    /\ ~verdict.is_amb
    /\ verdict.attendance_status = "Absent"

\* C19: adjustedTotal = max(total - max(0, breakMinutes), 1) and effectiveThreshold =
\* max(0, thresholdRatio * adjustedTotal - max(0, bufferMinutes)); so adjustedTotal is
\* at least 1 minute and effectiveThreshold at least 0, also for a break longer than
\* the class and for negative break and buffer values.
ThresholdArithmetic ==
    run.done =>
        LET break == IF conf.break_minutes > 0 THEN conf.break_minutes ELSE 0
            buffer == IF conf.buffer_minutes > 0 THEN conf.buffer_minutes ELSE 0
            left == run.total_class_minutes - break
            adjusted == IF left > Minutes(1) THEN left ELSE Minutes(1)
            raw == (conf.threshold_ratio * adjusted) \div 5
            effective == IF raw - buffer > 0 THEN raw - buffer ELSE 0
        IN  /\ run.adjusted_total_minutes = adjusted
            /\ run.threshold_minutes_raw = raw
            /\ 5 * raw = conf.threshold_ratio * adjusted
            /\ run.effective_threshold_minutes = effective
            /\ run.adjusted_total_minutes >= Minutes(1)
            /\ run.effective_threshold_minutes >= 0

\* a break longer than the class and a negative buffer: one adjusted minute, of
\* which four fifths are the threshold
LongBreakNegativeBuffer ==
    /\ run.done
    /\ conf.break_minutes > run.total_class_minutes
    /\ conf.buffer_minutes < 0
    /\ conf.threshold_ratio = 4
    /\ run.adjusted_total_minutes = Minutes(1)
    /\ run.effective_threshold_minutes = Hundredths(80)

----------------------------------------------------------------------------
(* Interval Engine inputs: a grid of MaxT+1 instants, EngineStep seconds apart *)

MaxT == 4
MaxLen == 2
EngineStep == 30
MaxGapMinutes == 1

EngineGrid == {k * EngineStep : k \in 0..MaxT}
RawPairs == (EngineGrid \cup {Missing}) \X (EngineGrid \cup {Missing})
ValidPairs == {iv \in EngineGrid \X EngineGrid : iv[2] > iv[1]}

\* the grid cells [k*EngineStep, (k+1)*EngineStep) lying inside a valid interval of the list
Covered(ints) ==
    {k \in 0..(MaxT - 1) :
        \E n \in DOMAIN ints :
            /\ IsValidInterval(ints[n])
            /\ ints[n][1] <= k * EngineStep
            /\ (k + 1) * EngineStep <= ints[n][2]}

CellMinutes(cells) == Cardinality(cells) * EngineStep * UnitsPerSecond

EngineInit ==
    /\ pc = "input"
    /\ EngineIdle
    /\ StudentIdle
    /\ DecideIdle
    /\ PipelineIdle
    /\ RequestIdle

\* one more raw interval (possibly inverted, degenerate or with a missing end) for A
AddRawA ==
    /\ pc = "input"
    /\ Len(A) < MaxLen
    /\ \E iv \in RawPairs : A' = Append(A, iv)
    /\ UNCHANGED <<pc, B, ret>>
    /\ UNCHANGED <<studentVars, decideVars, pipelineVars, requestVars>>

CallMerge ==
    /\ pc = "input"
    /\ pc' = "done"
    /\ ret' = [fn |-> "merge", val |-> _merge_intervals(A)]
    /\ UNCHANGED <<A, B>>
    /\ UNCHANGED <<studentVars, decideVars, pipelineVars, requestVars>>

CallHasAnyOverlap ==
    /\ pc = "input"
    /\ pc' = "done"
    /\ ret' = [fn |-> "overlap", val |-> _has_any_overlap_raw(A)]
    /\ UNCHANGED <<A, B>>
    /\ UNCHANGED <<studentVars, decideVars, pipelineVars, requestVars>>

IntervalsNext == AddRawA \/ CallMerge \/ CallHasAnyOverlap

SpecIntervals == EngineInit /\ [][IntervalsNext]_vars

\* two lists of well-formed intervals, MaxLen+1 intervals in all
AddA ==
    /\ pc = "input"
    /\ Len(A) + Len(B) < MaxLen + 1
    /\ \E iv \in ValidPairs : A' = Append(A, iv)
    /\ UNCHANGED <<pc, B, ret>>
    /\ UNCHANGED <<studentVars, decideVars, pipelineVars, requestVars>>

AddB ==
    /\ pc = "input"
    /\ Len(A) + Len(B) < MaxLen + 1
    /\ \E iv \in ValidPairs : B' = Append(B, iv)
    /\ UNCHANGED <<pc, A, ret>>
    /\ UNCHANGED <<studentVars, decideVars, pipelineVars, requestVars>>

CallMinus ==
    /\ pc = "input"
    /\ pc' = "done"
    /\ ret' = [fn |-> "minus", val |-> _minutes_A_minus_B(A, B)]
    /\ UNCHANGED <<A, B>>
    /\ UNCHANGED <<studentVars, decideVars, pipelineVars, requestVars>>

CallOverlapOrClose ==
    /\ pc = "input"
    /\ pc' = "done"
    /\ \E g \in 0..MaxGapMinutes :
          ret' = [fn |-> "near", gap |-> g, val |-> _intervals_overlap_or_close(A, B, g)]
    /\ UNCHANGED <<A, B>>
    /\ UNCHANGED <<studentVars, decideVars, pipelineVars, requestVars>>

PairsNext == AddA \/ AddB \/ CallMinus \/ CallOverlapOrClose

SpecPairs == EngineInit /\ [][PairsNext]_vars

\* the seconds between two intervals: below zero when they overlap, zero when they touch
SecondsApart(x, y) == Max2(x[1], y[1]) - (IF x[2] <= y[2] THEN x[2] ELSE y[2])

(* C17: _intervals_overlap_or_close(A, B, g) is true iff some merged interval of A
   and some merged interval of B overlap, touch or lie at most g minutes apart; it
   is false when either list has no valid interval.  The two-pointer scan misses no
   such pair. *)
OverlapOrCloseIffSomePairWithinGap ==
    ret.fn = "near" =>
        LET mA == _merge_intervals(A)
            mB == _merge_intervals(B)
        IN  /\ ret.val = (\E m \in DOMAIN mA, n \in DOMAIN mB :
                              SecondsApart(mA[m], mB[n]) <= ret.gap * SecondsPerMinute)
            /\ (SelectSeq(A, IsValidInterval) = <<>>
                    \/ SelectSeq(B, IsValidInterval) = <<>>) => ret.val = FALSE

\* one interval on each side, exactly one minute apart, and a tolerance of one minute
PairExactlyAtGap ==
    /\ ret.fn = "near"
    /\ ret.gap = 1
    /\ ret.val = TRUE
    /\ Len(A) = 1
    /\ Len(B) = 1
    /\ SecondsApart(A[1], B[1]) = SecondsPerMinute

----------------------------------------------------------------------------
(* C4: _merge_intervals returns intervals sorted by start, each with end > start,
   each starting strictly after the previous one ends (disjoint and not touching),
   and covering exactly what the valid input intervals cover. *)
MergeIsDisjointSortedExact ==
    ret.fn = "merge" =>
        /\ \A n \in DOMAIN ret.val : ret.val[n][2] > ret.val[n][1]
        /\ \A n \in 1..(Len(ret.val) - 1) : ret.val[n + 1][1] > ret.val[n][2]
        /\ Covered(ret.val) = Covered(A)

\* merge was applied to two valid intervals that touch or overlap, and to an invalid one
MergeCoalescedWitness ==
    /\ ret.fn = "merge"
    /\ Len(A) = 2
    /\ Len(ret.val) = 1
    /\ IsValidInterval(A[1]) /\ IsValidInterval(A[2])
    /\ A[2][2] = A[1][1]

MergeFilteredWitness ==
    /\ ret.fn = "merge"
    /\ Len(A) = 2
    /\ ~IsValidInterval(A[1])
    /\ Len(ret.val) = 1

(* C5: _has_any_overlap_raw is true exactly when two distinct valid input intervals
   share an open point (each starts strictly before the other ends); intervals that
   only touch do not overlap. *)
OverlapIffSharedOpenPoint ==
    ret.fn = "overlap" =>
        (ret.val <=>
            \E m, n \in DOMAIN A :
                /\ m # n
                /\ IsValidInterval(A[m]) /\ IsValidInterval(A[n])
                /\ A[m][1] < A[n][2]
                /\ A[n][1] < A[m][2])

\* two valid intervals that only touch were scanned and reported as not overlapping
OverlapTouchingWitness ==
    /\ ret.fn = "overlap"
    /\ Len(A) = 2
    /\ IsValidInterval(A[1]) /\ IsValidInterval(A[2])
    /\ A[1][2] = A[2][1]
    /\ ret.val = FALSE

(* C2: _minutes_A_minus_B returns the minutes of the union of A not covered by the
   union of B. *)
MinusIsUncoveredMinutes ==
    ret.fn = "minus" => ret.val = CellMinutes(Covered(A) \ Covered(B))

----------------------------------------------------------------------------
(* Reconnect Detector and the per-identity block of the verdict loop *)

RECONNECT_OVERLAP_TOLERANCE == 2

RECURSIVE InsertBySpan(_, _)
\* segments.sort(key=(start, end)) is stable
InsertBySpan(sorted, x) ==
    IF sorted = <<>> THEN <<x>>
    ELSE IF \/ Head(sorted).start < x.start
            \/ (Head(sorted).start = x.start /\ Head(sorted).end <= x.end)
         THEN <<Head(sorted)>> \o InsertBySpan(Tail(sorted), x)
         ELSE <<x>> \o sorted

RECURSIVE SortBySpan(_)
SortBySpan(segs) ==
    IF segs = <<>> THEN <<>>
    ELSE InsertBySpan(SortBySpan(SubSeq(segs, 1, Len(segs) - 1)), segs[Len(segs)])

RECURSIVE SegmentsOf(_)
\* the loop of _prepare_segments_for_reconnect: a missing end is repaired by the other
\* one, an inverted pair is swapped
SegmentsOf(recs) ==
    IF recs = <<>> THEN <<>>
    ELSE LET rec == Head(recs)
             s0 == rec.join_ts
             e0 == rec.leave_ts
             s1 == IF s0 = Missing THEN e0 ELSE s0
             e1 == IF e0 = Missing THEN s1 ELSE e0
             s == IF e1 < s1 THEN e1 ELSE s1
             e == IF e1 < s1 THEN s1 ELSE e1
         IN  IF s0 = Missing /\ e0 = Missing THEN SegmentsOf(Tail(recs))
             ELSE <<[start |-> s, end |-> e, join_ts |-> s0, leave_ts |-> e0]>>
                  \o SegmentsOf(Tail(recs))

_prepare_segments_for_reconnect(recs) == SortBySpan(SegmentsOf(recs))

\* a session that touches the coverage window counts as inside it
IsInsideCoverageOrTouching(start, coverage_end) == start <= coverage_end

\* a session that starts within the tolerance after the coverage window counts as
\* inside it
IsInsideCoverageOrNear(start, coverage_end) ==
    start <= coverage_end + RECONNECT_OVERLAP_TOLERANCE

\* line 153: the session starts inside the coverage window, by more than the tolerance
IsInsideCoverage(start, coverage_end) == start + RECONNECT_OVERLAP_TOLERANCE < coverage_end

RECURSIVE ReconnectScanRawGap(_, _, _, _)
\* the loop with the gap of an event left as it comes out, below zero or not
ReconnectScanRawGap(segs, i, coverage_end, events) ==
    IF i > Len(segs) THEN events
    ELSE LET seg == segs[i]
             start == seg.start
         IN  IF IsInsideCoverage(start, coverage_end)
             THEN ReconnectScanRawGap(segs, i + 1,
                                IF seg.end > coverage_end THEN seg.end ELSE coverage_end,
                                events)
             ELSE LET ev == [index |-> Len(events) + 1,
                             disconnect_ts |-> coverage_end,
                             reconnect_ts |-> start,
                             gap |-> start - coverage_end]
                  IN  ReconnectScanRawGap(segs, i + 1, seg.end, Append(events, ev))

RECURSIVE ReconnectScan(_, _, _, _)
\* the loop "for seg in segments[1:]" with its coverage_end and the events so far
ReconnectScan(segs, i, coverage_end, events) ==
    IF i > Len(segs) THEN events
    ELSE LET seg == segs[i]
             start == seg.start
         IN  IF IsInsideCoverage(start, coverage_end)
             THEN ReconnectScan(segs, i + 1,
                                IF seg.end > coverage_end THEN seg.end ELSE coverage_end,
                                events)
             ELSE LET gap_td == start - coverage_end
                      ev == [index |-> Len(events) + 1,
                             disconnect_ts |-> coverage_end,
                             reconnect_ts |-> start,
                             gap |-> IF gap_td < 0 THEN 0 ELSE gap_td]
                  IN  ReconnectScan(segs, i + 1, seg.end, Append(events, ev))

_compute_reconnect_events(segs) ==
    IF segs = <<>> THEN <<>>
    ELSE ReconnectScan(segs, 2, segs[1].end, <<>>)

\* lines 503-511 for one identity: its raw intervals and its session records
AnalyseKey(all_ints, recs) ==
    LET positive_ints == SelectSeq(all_ints, IsValidInterval)
        segments_for_detection == _prepare_segments_for_reconnect(recs)
        per_key_events == _compute_reconnect_events(segments_for_detection)
        overlap_any == _has_any_overlap_raw(all_ints)
    IN  [done |-> TRUE,
         union_min_raw |-> _interval_union_minutes(all_ints),
         seg_count |-> IF segments_for_detection # <<>>
                       THEN Len(segments_for_detection) ELSE Len(positive_ints),
         reconnect_count |-> Len(per_key_events),
         events |-> per_key_events,
         is_dual |-> (Len(positive_ints) > 1 /\ overlap_any),
         is_reconnect |-> (Len(per_key_events) > 0)]

RECURSIVE IntervalsOfRecords(_)
\* line 399: a row adds (join, leave) to the identity's intervals when both are present
IntervalsOfRecords(recs) ==
    IF recs = <<>> THEN <<>>
    ELSE (IF Head(recs).join_ts # Missing /\ Head(recs).leave_ts # Missing
          THEN <<<<Head(recs).join_ts, Head(recs).leave_ts>>>> ELSE <<>>)
         \o IntervalsOfRecords(Tail(recs))

(* One identity's sessions: instants on quarter-hour slots, and a few seconds after
   the first slot boundary to reach the 2-second tolerance. *)
SlotSeconds == 900
MaxSlot == 3
MaxOff == 2
MaxSessions == 2

StudentTimes == {k * SlotSeconds : k \in 0..MaxSlot} \cup {SlotSeconds + d : d \in 1..MaxOff}

StudentInit ==
    /\ pc = "sessions"
    /\ EngineIdle
    /\ StudentIdle
    /\ DecideIdle
    /\ PipelineIdle
    /\ RequestIdle

\* one more row of the log for this identity; join and leave may be inverted or equal
AddSession ==
    /\ pc = "sessions"
    /\ Len(records) < MaxSessions
    /\ \E j \in StudentTimes, l \in StudentTimes :
          records' = Append(records, [join_ts |-> j, leave_ts |-> l])
    /\ UNCHANGED <<pc, analysis>>
    /\ UNCHANGED <<engineVars, decideVars, pipelineVars, requestVars>>

Analyse ==
    /\ pc = "sessions"
    /\ records # <<>>
    /\ pc' = "analysed"
    /\ analysis' = AnalyseKey(IntervalsOfRecords(records), records)
    /\ UNCHANGED records
    /\ UNCHANGED <<engineVars, decideVars, pipelineVars, requestVars>>

StudentNext == AddSession \/ Analyse

SpecStudent == StudentInit /\ [][StudentNext]_vars

\* the identity has exactly two sessions, both with leave after join
TwoValidSessions ==
    /\ analysis.done
    /\ Len(records) = 2
    /\ \A n \in 1..2 : records[n].leave_ts > records[n].join_ts

\* the later of two sessions starts exactly where the earlier one ends
Touching ==
    \E m, n \in 1..2 : m # n /\ records[n].join_ts = records[m].leave_ts

(* C3 as stated: two sessions that touch (gap 0), as in [(0,10),(10,20)], yield no
   reconnect event: the count stays 0. *)
TouchingSessionsYieldNoEvent ==
    (TwoValidSessions /\ Touching) => analysis.reconnect_count = 0

(* C3 amended: two sessions that touch yield exactly one reconnect event, with
   disconnect = reconnect = the instant where they touch and gap 0. *)
TouchingSessionsYieldOneZeroGapEvent ==
    (TwoValidSessions /\ Touching) =>
        /\ analysis.reconnect_count = 1
        /\ analysis.is_reconnect
        /\ \E m, n \in 1..2 :
              /\ m # n
              /\ records[n].join_ts = records[m].leave_ts
              /\ analysis.events[1] = [index |-> 1,
                                       disconnect_ts |-> records[m].leave_ts,
                                       reconnect_ts |-> records[n].join_ts,
                                       gap |-> 0]

\* sessions (0,15min) and (15min,30min) of one identity were analysed
TouchingSessionsAnalysed ==
    /\ TwoValidSessions
    /\ records = <<[join_ts |-> 0, leave_ts |-> SlotSeconds],
                   [join_ts |-> SlotSeconds, leave_ts |-> 2 * SlotSeconds]>>
    /\ analysis.reconnect_count = 1

\* the length in seconds of the time both sessions cover
OverlapSeconds ==
    LET lo == Max2(records[1].join_ts, records[2].join_ts)
        hi == IF records[1].leave_ts <= records[2].leave_ts
              THEN records[1].leave_ts ELSE records[2].leave_ts
    IN  hi - lo

SpanSeconds ==
    LET lo == IF records[1].join_ts <= records[2].join_ts
              THEN records[1].join_ts ELSE records[2].join_ts
        hi == Max2(records[1].leave_ts, records[2].leave_ts)
    IN  hi - lo

(* C8: two sessions of one identity that overlap by more than the 2-second tolerance
   give attended raw minutes equal to the length of their union (the span from the
   earlier join to the later leave, not the sum), classify the identity as dual
   device, and yield no reconnect event. *)
OverlappingSessionsUnionDualNoEvent ==
    (TwoValidSessions /\ OverlapSeconds > RECONNECT_OVERLAP_TOLERANCE) =>
        /\ analysis.union_min_raw = SpanSeconds * UnitsPerSecond
        /\ analysis.is_dual
        /\ analysis.reconnect_count = 0
        /\ ~analysis.is_reconnect

\* sessions 9:00-9:30 and 9:15-9:45 (seconds after 9:00): 45 attended minutes, not 60
QuarterHourOverlapAnalysed ==
    /\ TwoValidSessions
    /\ records = <<[join_ts |-> 0, leave_ts |-> 1800],
                   [join_ts |-> 900, leave_ts |-> 2700]>>
    /\ analysis.union_min_raw = 45 * MinuteUnits
    /\ analysis.is_dual
    /\ analysis.reconnect_count = 0

\* the sessions of the identity with join before leave (swapped when inverted), in
\* (start, end) order
OrderedSessions ==
    LET n == Len(records)
        lo(r) == IF r.leave_ts < r.join_ts THEN r.leave_ts ELSE r.join_ts
        hi(r) == IF r.leave_ts < r.join_ts THEN r.join_ts ELSE r.leave_ts
        before(a, b) == lo(a) < lo(b) \/ (lo(a) = lo(b) /\ hi(a) <= hi(b))
        order == CHOOSE p \in [1..n -> 1..n] :
                    /\ \A i, j \in 1..n : i # j => p[i] # p[j]
                    /\ \A i \in 1..(n - 1) : before(records[p[i]], records[p[i + 1]])
    IN  [i \in 1..n |-> <<lo(records[order[i]]), hi(records[order[i]])>>]

RECURSIVE CurrentEndBefore(_, _)
\* the end of the coverage window when session i (i > 1) is looked at: the end of the
\* session before it when that one emitted an event or is the first, else the later of
\* that end and the window's end before
CurrentEndBefore(ss, i) ==
    IF i = 2 THEN ss[1][2]
    ELSE IF ss[i - 1][1] >= CurrentEndBefore(ss, i - 1) - RECONNECT_OVERLAP_TOLERANCE
         THEN ss[i - 1][2]
         ELSE Max2(CurrentEndBefore(ss, i - 1), ss[i - 1][2])

EmitsEvent(ss, i) == ss[i][1] >= CurrentEndBefore(ss, i) - RECONNECT_OVERLAP_TOLERANCE

TenMinutes == 10 * SecondsPerMinute
ExampleSessions ==
    <<[join_ts |-> 2 * TenMinutes, leave_ts |-> 3 * TenMinutes],
      [join_ts |-> 0, leave_ts |-> TenMinutes]>>

(* C16: with the sessions of an identity in (start, end) order and one coverage
   window, session i > 1 emits a reconnect event iff its start is at or after
   currentEnd - 2 seconds; the events are numbered in that order and carry
   disconnect = currentEnd before the session, reconnect = its start and
   gap = max(0, reconnect - disconnect); the window is then that session's.  Sessions
   [(0,10),(20,30)] (minutes) yield one event: disconnect 10, reconnect 20, gap 10. *)
EventIffStartAtOrAfterCurrentEnd ==
    /\ analysis.done =>
          LET ss == OrderedSessions
              emitting == {i \in 2..Len(ss) : EmitsEvent(ss, i)}
              seen(i) == Cardinality({j \in emitting : j <= i})
          IN  /\ analysis.reconnect_count = Cardinality(emitting)
              /\ Len(analysis.events) = Cardinality(emitting)
              /\ \A i \in emitting :
                    LET disconnect == CurrentEndBefore(ss, i)
                        reconnect == ss[i][1]
                    IN  analysis.events[seen(i)] =
                            [index |-> seen(i),
                             disconnect_ts |-> disconnect,
                             reconnect_ts |-> reconnect,
                             gap |-> IF reconnect > disconnect
                                     THEN reconnect - disconnect ELSE 0]
    /\ _compute_reconnect_events(_prepare_segments_for_reconnect(ExampleSessions))
          = <<[index |-> 1, disconnect_ts |-> TenMinutes,
               reconnect_ts |-> 2 * TenMinutes, gap |-> TenMinutes]>>

\* a session that starts a second before the end of the one before it: an event with
\* gap 0, and disconnect after reconnect
EventInsideTolerance ==
    /\ analysis.done
    /\ records = <<[join_ts |-> SlotSeconds + 1, leave_ts |-> 2 * SlotSeconds],
                   [join_ts |-> 0, leave_ts |-> SlotSeconds + 2]>>
    /\ analysis.events = <<[index |-> 1, disconnect_ts |-> SlotSeconds + 2,
                            reconnect_ts |-> SlotSeconds + 1, gap |-> 0]>>

\* the intervals of the sessions with leave and join exchanged where leave < join
SwappedIntervals ==
    [i \in 1..Len(records) |->
        IF records[i].leave_ts < records[i].join_ts
        THEN <<records[i].leave_ts, records[i].join_ts>>
        ELSE <<records[i].join_ts, records[i].leave_ts>>]

(* C18: a session whose leave time precedes its join time enters the Interval Engine
   as (leave, join): the attended minutes of the identity are the union of its
   sessions with inverted ones swapped, and overlap detection sees the swapped
   sessions; only sessions with leave = join are left out. *)
InvertedSessionsCountAsSwapped ==
    analysis.done =>
        /\ analysis.union_min_raw = _interval_union_minutes(SwappedIntervals)
        /\ analysis.is_dual =
              (/\ Len(SelectSeq(SwappedIntervals, IsValidInterval)) > 1
               /\ _has_any_overlap_raw(SwappedIntervals))

\* every session of the identity has leave after join
AllSessionsWellFormed == \A i \in DOMAIN records : records[i].leave_ts > records[i].join_ts

\* the maximal runs of instants covered by the sessions, in time order
CoverageRuns == _merge_intervals(IntervalsOfRecords(records))

(* C22: for an identity whose sessions all have leave > join, every run of its merged
   coverage after the first has a reconnect event whose reconnect time is the start
   of that run; so the reconnect count is at least the number of runs minus one, and
   is not 0 when the coverage has two or more runs. *)
EveryCoverageGapIsReported ==
    (analysis.done /\ AllSessionsWellFormed) =>
        /\ \A n \in 2..Len(CoverageRuns) :
              \E e \in DOMAIN analysis.events :
                  /\ analysis.events[e].reconnect_ts = CoverageRuns[n][1]
                  /\ analysis.events[e].disconnect_ts <= CoverageRuns[n][1]
                  /\ analysis.events[e].disconnect_ts >= CoverageRuns[n - 1][1]
        /\ analysis.reconnect_count >= Len(CoverageRuns) - 1
        /\ (Len(CoverageRuns) >= 2 => analysis.is_reconnect)

\* two sessions a second apart, analysed: two runs and one event at the later start
OneSecondGapReported ==
    /\ analysis.done
    /\ AllSessionsWellFormed
    /\ Len(CoverageRuns) = 2
    /\ CoverageRuns[2][1] - CoverageRuns[1][2] = 1
    /\ analysis.reconnect_count = 1
    /\ analysis.events[1].reconnect_ts = CoverageRuns[2][1]

----------------------------------------------------------------------------
(* Identity Resolver, verdict loop and roster reconciliation of
   process_zoom_attendance on a timestamped log *)

\* None where a key is expected
NoKey == <<>>

ALIAS_MAX_GAP_MINUTES == 7

\* what the first row of a key leaves in the *_by_key dictionaries (setdefault)
NewEntry(info) ==
    [name |-> info.clean_name,
     canon |-> info.canon,
     erp |-> info.erp,
     intervals |-> <<>>,
     good_intervals |-> <<>>,
     bad_intervals |-> <<>>,
     raw_names |-> {},
     session_records |-> <<>>,
     match_source |-> IF IsErpKey(info.key) THEN "erp_in_name" ELSE "name_only"]

\* the body of the loop of lines 387-407 for one row
IngestRow(bk, r) ==
    LET info == NameInfo[r.raw_name]
        k == info.key
        old == IF k \in DOMAIN bk THEN bk[k] ELSE NewEntry(info)
        iv == IF r.join_ts # Missing /\ r.leave_ts # Missing
              THEN <<<<r.join_ts, r.leave_ts>>>> ELSE <<>>
        new == [old EXCEPT
                  !.intervals = @ \o iv,
                  !.bad_intervals = IF info.pen_flag = -1 THEN @ \o iv ELSE @,
                  !.good_intervals = IF info.pen_flag = -1 THEN @ ELSE @ \o iv,
                  !.raw_names = @ \cup {r.raw_name},
                  !.session_records = Append(@, r)]
    IN  [kk \in DOMAIN bk \cup {k} |-> IF kk = k THEN new ELSE bk[kk]]

RECURSIVE IngestRows(_, _, _)
\* lines 387-407: the dictionaries and the insertion order of their keys
IngestRows(rs, bk, order) ==
    IF rs = <<>> THEN [by_key |-> bk, key_order |-> order]
    ELSE LET k == NameInfo[Head(rs).raw_name].key
         IN  IngestRows(Tail(rs), IngestRow(bk, Head(rs)),
                        IF k \in DOMAIN bk THEN order ELSE Append(order, k))

\* erp_by_canon[cn] (lines 424-427): ID keys never leave the dictionaries
ErpKeysOfCanon(bk, order, cn) ==
    SelectSeq(order, LAMBDA k : IsErpKey(k) /\ bk[k].canon = cn)

RECURSIVE GroupByCanon(_, _)
\* name_by_canon flattened in the order of the loops of lines 429 and 433
GroupByCanon(bk, keys) ==
    IF keys = <<>> THEN <<>>
    ELSE LET cn == bk[Head(keys)].canon
         IN  SelectSeq(keys, LAMBDA k : bk[k].canon = cn)
             \o GroupByCanon(bk, SelectSeq(keys, LAMBDA k : bk[k].canon # cn))

\* the name keys the alias loop reaches: a non-empty canonical name (line 425) that
\* some ID key shares (lines 430-432)
AliasWorklist(bk, order) ==
    SelectSeq(GroupByCanon(bk, SelectSeq(order,
                  LAMBDA k : ~IsErpKey(k) /\ bk[k].canon # <<>>)),
              LAMBDA k : ErpKeysOfCanon(bk, order, bk[k].canon) # <<>>)

\* the ID key that any overlap or nearness of the other ID keys cannot displace
SoleCompatible(bk, name_ints, erp_keys) ==
    LET compatible(i) ==
            _intervals_overlap_or_close(name_ints, bk[erp_keys[i]].intervals,
                                        ALIAS_MAX_GAP_MINUTES)
        sole(i) == compatible(i) /\ \A j \in DOMAIN erp_keys \ {i} : ~compatible(j)
    IN  IF \E i \in DOMAIN erp_keys : sole(i)
        THEN erp_keys[CHOOSE i \in DOMAIN erp_keys : sole(i)] ELSE NoKey

\* any ID key of the canonical name, compatible or not
FirstErpKey(bk, name_ints, erp_keys) == erp_keys[1]

RECURSIVE FirstCompatible(_, _, _)
\* lines 439-442
FirstCompatible(bk, name_ints, erp_keys) ==
    IF erp_keys = <<>> THEN NoKey
    ELSE IF _intervals_overlap_or_close(name_ints, bk[Head(erp_keys)].intervals,
                                        ALIAS_MAX_GAP_MINUTES)
         THEN Head(erp_keys)
         ELSE FirstCompatible(bk, name_ints, Tail(erp_keys))

\* lines 435-442
ChooseErpKey(bk, name_k, erp_keys) ==
    IF Len(erp_keys) = 1 THEN erp_keys[1]
    ELSE FirstCompatible(bk, bk[name_k].intervals, erp_keys)

\* the target takes what the name key holds and the name key stays where it is
MergeKeepingSource(bk, name_k, chosen) ==
    [k \in DOMAIN bk |->
        IF k # chosen THEN bk[k]
        ELSE [bk[k] EXCEPT
                !.intervals = @ \o bk[name_k].intervals,
                !.good_intervals = @ \o bk[name_k].good_intervals,
                !.bad_intervals = @ \o bk[name_k].bad_intervals,
                !.session_records = @ \o bk[name_k].session_records,
                !.raw_names = @ \cup bk[name_k].raw_names,
                !.match_source = "alias_merge"]]

\* lines 446-456: the target takes what the name key holds and the name key is popped
MergeInto(bk, name_k, chosen) ==
    [k \in DOMAIN bk \ {name_k} |->
        IF k # chosen THEN bk[k]
        ELSE [bk[k] EXCEPT
                !.intervals = @ \o bk[name_k].intervals,
                !.good_intervals = @ \o bk[name_k].good_intervals,
                !.bad_intervals = @ \o bk[name_k].bad_intervals,
                !.session_records = @ \o bk[name_k].session_records,
                !.raw_names = @ \cup bk[name_k].raw_names,
                !.match_source = "alias_merge"]]

\* round(x, 2) of a minute value; a whole number of seconds, and four fifths of one,
\* is never halfway between two hundredths
Round2(x) == ((x + (MinuteUnits \div 200)) \div (MinuteUnits \div 100)) * (MinuteUnits \div 100)

\* an exemption read without regard to the key it was given for
ExemptWhateverKey(c, k, flag) == \E q \in DOMAIN c.exemptions : c.exemptions[q][flag]

\* bool(ex.get(flag, False)) for ex = exemptions.get(k, {})
Exempt(c, k, flag) == k \in DOMAIN c.exemptions /\ c.exemptions[k][flag]

Issue(tag, count, src) == [tag |-> tag, count |-> count, src |-> src]

\* lines 569-578; the texts are shortened to tags
IssuesOf(k, an, is_amb, merges, c) ==
    (IF an.is_dual /\ ~Exempt(c, k, "overlap")
     THEN <<Issue("Duplicate account - overlapping", 0, NoKey)>> ELSE <<>>)
    \o (IF an.is_reconnect /\ ~Exempt(c, k, "reconnect")
        THEN <<Issue("Duplicate account - reconnects", an.reconnect_count, NoKey)>>
        ELSE <<>>)
    \o (IF is_amb THEN <<Issue("Ambiguous duplicate name", 0, NoKey)>> ELSE <<>>)
    \o [i \in 1..Len(SelectSeq(merges, LAMBDA m : m[2] = k)) |->
          Issue("Merged alias", 0, SelectSeq(merges, LAMBDA m : m[2] = k)[i][1])]

\* the body of the verdict loop (lines 493-631) for key k: its Attendance row, with the
\* Match Source that the Matches sheet records for the same key
VerdictRow(bk, k, merges, ambiguous_name_keys, c, r) ==
    LET e == bk[k]
        an == AnalyseKey(e.intervals, e.session_records)
        bad_only_minutes == _minutes_A_minus_B(e.bad_intervals, e.good_intervals)
        st == StatusBlock(r.rounding_mode, r.effective_threshold_minutes,
                          an.union_min_raw, k \in ambiguous_name_keys)
        pen_applied == IF Exempt(c, k, "naming") THEN 0
                       ELSE IF bad_only_minutes > c.penalty_tolerance_minutes THEN -1
                       ELSE 0
    IN  [Key |-> k,
         zoom_names |-> e.raw_names,
         attended_raw |-> Round2(st.union_min_raw),
         threshold_raw |-> Round2(r.effective_threshold_minutes),
         attended_decision |-> Round2(st.union_min_decision),
         threshold_decision |-> Round2(st.thr_decision),
         status |-> st.attendance_status,
         naming_penalty |-> pen_applied,
         issues |-> IssuesOf(k, an, st.is_amb, merges, c),
         match_source |-> e.match_source]

\* lines 481-488
AmbiguousNameKeys(bk, ambiguous) ==
    {k \in DOMAIN bk : ~IsErpKey(k) /\ _has_any_overlap_raw(bk[k].intervals)}
    \cup ambiguous

\* the keys the verdict loop visits: list(names_by_key.keys()) at line 493
ActiveKeys(bk, order) == SelectSeq(order, LAMBDA k : k \in DOMAIN bk)

\* line 633
PresentErps(bk) == {bk[k].erp : k \in {kk \in DOMAIN bk : bk[kk].erp # <<>>}}

\* le.max() - jo.min() in minutes (lines 347-350)
TotalClassMinutes(rs) ==
    LET jo == {rs[i].join_ts : i \in DOMAIN rs} \ {Missing}
        le == {rs[i].leave_ts : i \in DOMAIN rs} \ {Missing}
        jo_min == CHOOSE x \in jo : \A y \in jo : x <= y
        le_max == CHOOSE x \in le : \A y \in le : y <= x
    IN  (le_max - jo_min) * UnitsPerSecond

RECURSIVE ExtractFiveDigits(_)
\* str.extract(r"(\d{5})"): the first five digits in a row, None (empty) without them
ExtractFiveDigits(cell) ==
    IF Len(cell) < 5 THEN <<>>
    ELSE IF StartsWithFiveDigits(cell) THEN SubSeq(cell, 1, 5)
    ELSE ExtractFiveDigits(Tail(cell))

\* every line of the roster is kept, also one whose ID an earlier line carries
KeepDuplicates(out, seen) == out

RECURSIVE DropDuplicates(_, _)
\* drop_duplicates(subset=["ERP"], keep="first")
DropDuplicates(out, seen) ==
    IF out = <<>> THEN <<>>
    ELSE IF Head(out).ERP \in seen THEN DropDuplicates(Tail(out), seen)
    ELSE <<Head(out)>> \o DropDuplicates(Tail(out), seen \cup {Head(out).ERP})

\* lines 285-306 on the ID and name columns of the roster file; no file is the empty one
load_roster(file) ==
    LET out == [i \in 1..Len(file) |->
                  [ERP |-> ExtractFiveDigits(file[i].erp),
                   RosterName |-> strip(file[i].name),
                   RosterCanon |-> _canon_name(strip(file[i].name))]]
    IN  DropDuplicates(SelectSeq(out, LAMBDA row : row.ERP # <<>>), {})

\* the roster entry is reported whenever its ID has no verdict from the log
RosterIdMissing(row, bk, present) ==
    /\ row.ERP \notin present
    /\ (ErpPrefix \o row.ERP) \notin DOMAIN bk

\* line 643
RosterEntryMissing(row, bk, present) ==
    /\ row.ERP \notin present
    /\ (ErpPrefix \o row.ERP) \notin DOMAIN bk
    /\ row.RosterCanon \notin
          {RawCanon[n] : n \in UNION {bk[k].raw_names : k \in DOMAIN bk}}

RosterSuffix == <<" ", "(", "r", "o", "s", "t", "e", "r", ")">>

\* lines 644-655
RosterOnlyRow(row, r) ==
    [Key |-> ErpPrefix \o row.ERP,
     zoom_names |-> {row.RosterName \o RosterSuffix},
     attended_raw |-> 0,
     threshold_raw |-> Round2(r.effective_threshold_minutes),
     attended_decision |-> 0,
     threshold_decision |-> Round2(IF r.rounding_mode = "ceil_both"
                                   THEN CeilMinutes(r.effective_threshold_minutes)
                                   ELSE r.effective_threshold_minutes),
     status |-> "Absent",
     naming_penalty |-> 0,
     issues |-> <<Issue("Not in Zoom log (Roster)", 0, NoKey)>>,
     match_source |-> "roster-only"]

RECURSIVE RosterOnlyRows(_, _, _, _)
\* the loop of lines 640-688
RosterOnlyRows(rdf, bk, present, r) ==
    IF rdf = <<>> THEN <<>>
    ELSE (IF RosterEntryMissing(Head(rdf), bk, present)
          THEN <<RosterOnlyRow(Head(rdf), r)>> ELSE <<>>)
         \o RosterOnlyRows(Tail(rdf), bk, present, r)

(* The log: up to MaxRows rows, each one of the display names during one of three
   cells of CellSeconds; neighbouring cells touch and the outer two are more than
   ALIAS_MAX_GAP_MINUTES from each other. *)
MaxRows == 3
CellSeconds == 480
Cells == {0, 1, 2}
MaxRoster == 2

Roster10001 == <<"1", "0", "0", "0", "1">>
Roster10003 == <<"1", "0", "0", "0", "3">>
RosterJane == <<"J", "a", "n", "e", " ", "D", "o", "e", " ">>
RosterSara == <<"S", "a", "r", "a", " ", "M", "a", "l", "i", "k">>

RosterLines ==
    {[erp |-> Roster10001, name |-> RosterJane],
     [erp |-> Roster10003, name |-> RosterJane],
     [erp |-> Roster10003, name |-> RosterSara]}

\* roster files of up to MaxRoster lines, no line written twice
RosterFiles ==
    {file \in UNION {[1..n -> RosterLines] : n \in 0..MaxRoster} :
        \A i, j \in DOMAIN file : i # j => file[i] # file[j]}

LoadedRoster == [file \in RosterFiles |-> load_roster(file)]

Init ==
    /\ pc = "log"
    /\ EngineIdle
    /\ StudentIdle
    /\ DecideIdle
    /\ PipelineIdle
    /\ RequestIdle

\* one more row of the Zoom log
AddRow ==
    /\ pc = "log"
    /\ Len(rows) < MaxRows
    /\ \E n \in RawNames, c \in Cells :
          rows' = Append(rows, [raw_name |-> n, join_ts |-> c * CellSeconds,
                                leave_ts |-> (c + 1) * CellSeconds])
    /\ UNCHANGED <<pc, by_key, key_order, pending, alias_merges, ambiguous_aliases,
                   attendance_rows, present_erps, roster_df>>
    /\ UNCHANGED <<engineVars, studentVars, decideVars, requestVars>>

\* lines 343-360 (run values), 387-407 (the dictionaries) and 421-428 (the alias lists)
Ingest ==
    /\ pc = "log"
    /\ rows # <<>>
    /\ pc' = "resolve"
    /\ run' = RunValues(conf, TotalClassMinutes(rows))
    /\ LET d == IngestRows(rows, <<>>, <<>>)
       IN  /\ by_key' = d.by_key
           /\ key_order' = d.key_order
           /\ pending' = AliasWorklist(d.by_key, d.key_order)
    /\ UNCHANGED <<rows, alias_merges, ambiguous_aliases, attendance_rows,
                   present_erps, roster_df>>
    /\ UNCHANGED <<engineVars, studentVars, conf, verdict, requestVars>>

\* one pass of the loop of line 433 (lines 434-456)
MergeAlias ==
    /\ pc = "resolve"
    /\ pending # <<>>
    /\ LET name_k == Head(pending)
           erp_keys == ErpKeysOfCanon(by_key, key_order, by_key[name_k].canon)
           chosen == ChooseErpKey(by_key, name_k, erp_keys)
       IN  IF chosen = NoKey
           THEN /\ ambiguous_aliases' = ambiguous_aliases \cup {name_k}
                /\ UNCHANGED <<by_key, alias_merges>>
           ELSE /\ by_key' = MergeInto(by_key, name_k, chosen)
                /\ alias_merges' = Append(alias_merges, <<name_k, chosen>>)
                /\ UNCHANGED ambiguous_aliases
    /\ pending' = Tail(pending)
    /\ UNCHANGED <<pc, rows, key_order, attendance_rows, present_erps, roster_df>>
    /\ UNCHANGED <<engineVars, studentVars, decideVars, requestVars>>

\* lines 480-633: the ambiguous name keys and the verdict of every active key
Decide ==
    /\ pc = "resolve"
    /\ pending = <<>>
    /\ pc' = "decided"
    /\ LET amb == AmbiguousNameKeys(by_key, ambiguous_aliases)
           keys == ActiveKeys(by_key, key_order)
       IN  attendance_rows' =
               [i \in 1..Len(keys) |->
                   VerdictRow(by_key, keys[i], alias_merges, amb, conf, run)]
    /\ present_erps' = PresentErps(by_key)
    /\ UNCHANGED <<rows, by_key, key_order, pending, alias_merges, ambiguous_aliases,
                   roster_df>>
    /\ UNCHANGED <<engineVars, studentVars, decideVars, requestVars>>

\* lines 323 and 635-688: the roster is read and its missing entries are appended
Reconcile ==
    /\ pc = "decided"
    /\ pc' = "done"
    /\ \E file \in RosterFiles :
          /\ roster_df' = LoadedRoster[file]
          /\ attendance_rows' =
                attendance_rows \o RosterOnlyRows(roster_df', by_key, present_erps, run)
    /\ UNCHANGED <<rows, by_key, key_order, pending, alias_merges, ambiguous_aliases,
                   present_erps>>
    /\ UNCHANGED <<engineVars, studentVars, decideVars, requestVars>>

Next == AddRow \/ Ingest \/ MergeAlias \/ Decide \/ Reconcile

Spec == Init /\ [][Next]_vars

(* The same pipeline on a log of one student under a flagged name and under an ID
   name, whose sessions span one or more cells, and of a second student, run with a
   naming tolerance and with or without exemptions for the ID key. *)
SessionSpans == {<<i * CellSeconds, j * CellSeconds>> : i, j \in 0..3} \cap
                {iv \in Int \X Int : iv[2] > iv[1]}

PenaltyNames == {NameUpper, Name10001}

\* the sessions a row can hold: the student under either name during any span, and
\* another student, under a flagged name, during the first cell
PenaltySessions ==
    (PenaltyNames \X SessionSpans) \cup {<<NameOther, <<0, CellSeconds>>>>}

NamingExempt ==
    NameInfo[Name10001].key :> [naming |-> TRUE, overlap |-> FALSE, reconnect |-> FALSE]

\* exemptions for the ID key that waive the overlap tag, the reconnect tag, or all three
TagExemptions ==
    {NameInfo[Name10001].key :> [naming |-> n, overlap |-> o, reconnect |-> r] :
        <<n, o, r>> \in {<<FALSE, TRUE, FALSE>>, <<FALSE, FALSE, TRUE>>, <<TRUE, TRUE, TRUE>>}}

PenaltyConfs ==
    {[DefaultConf EXCEPT !.penalty_tolerance_minutes = tol, !.exemptions = ex] :
        tol \in {0, (CellSeconds \div SecondsPerMinute) * MinuteUnits},
        ex \in {<<>>, NamingExempt} \cup TagExemptions}

PenaltyInit ==
    /\ pc = "log"
    /\ EngineIdle
    /\ StudentIdle
    /\ conf \in PenaltyConfs /\ run = NoRun /\ verdict = NoVerdict
    /\ PipelineIdle
    /\ RequestIdle

\* one more row of the Zoom log, a session of one or more cells
AddSessionRow ==
    /\ pc = "log"
    /\ Len(rows) < MaxRows
    /\ \E s \in PenaltySessions :
          rows' = Append(rows, [raw_name |-> s[1], join_ts |-> s[2][1],
                                leave_ts |-> s[2][2]])
    /\ UNCHANGED <<pc, by_key, key_order, pending, alias_merges, ambiguous_aliases,
                   attendance_rows, present_erps, roster_df>>
    /\ UNCHANGED <<engineVars, studentVars, decideVars, requestVars>>

PenaltyNext == AddSessionRow \/ Ingest \/ MergeAlias \/ Decide

SpecPenalty == PenaltyInit /\ [][PenaltyNext]_vars

----------------------------------------------------------------------------
(* Properties of the resolver and of the roster reconciliation *)

KeyId10001 == NameInfo[Name10001].key
KeyId10002 == NameInfo[Name10002].key
KeyNameJane == NameInfo[NameUpper].key

\* the keys of the rows of the log, and the sessions the log gives to key k
LogKeys == {NameInfo[rows[i].raw_name].key : i \in DOMAIN rows}
LogSessions(k) ==
    {<<rows[i].join_ts, rows[i].leave_ts>> :
        i \in {j \in DOMAIN rows : NameInfo[rows[j].raw_name].key = k}}

\* some session of X and some session of Y are no more than gap seconds apart
\* (0 or less when they touch or overlap)
SessionsWithin(X, Y, gap) ==
    \E x \in X, y \in Y :
        /\ IsValidInterval(x) /\ IsValidInterval(y)
        /\ Max2(x[1], y[1]) - (IF x[2] <= y[2] THEN x[2] ELSE y[2]) <= gap

\* some session of X and some session of Y share more than an instant
SessionsOverlap(X, Y) ==
    \E x \in X, y \in Y :
        /\ IsValidInterval(x) /\ IsValidInterval(y)
        /\ Max2(x[1], y[1]) < (IF x[2] <= y[2] THEN x[2] ELSE y[2])

AliasGapSeconds == ALIAS_MAX_GAP_MINUTES * SecondsPerMinute

\* the ID keys that share the canonical name of key k
IdKeysSharingName(k) ==
    {K \in DOMAIN by_key : IsErpKey(K) /\ by_key[K].canon = by_key[k].canon}

RowsOfKey(k) == {i \in DOMAIN attendance_rows : attendance_rows[i].Key = k}

\* the alias loop is about to visit a name key that several ID keys could take
SeveralIdsStep ==
    /\ pc = "resolve"
    /\ pending # <<>>
    /\ Cardinality(IdKeysSharingName(Head(pending))) > 1

AliasStepRule ==
    SeveralIdsStep =>
        LET name_k == Head(pending)
            ids == IdKeysSharingName(name_k)
            near(K) == SessionsWithin(Range(by_key[name_k].intervals),
                                      Range(by_key[K].intervals), AliasGapSeconds)
            merged == name_k \notin DOMAIN by_key'
        IN  /\ merged =>
                \E K \in ids : /\ alias_merges' = Append(alias_merges, <<name_k, K>>)
                               /\ near(K)
            /\ (\A K \in ids : ~near(K)) =>
                /\ ~merged
                /\ by_key' = by_key
                /\ alias_merges' = alias_merges
                /\ name_k \in ambiguous_aliases'

AmbiguousAliasesNeedReview ==
    pc \in {"decided", "done"} =>
        \A k \in ambiguous_aliases :
            /\ k \in DOMAIN by_key
            /\ \E i \in RowsOfKey(k) : attendance_rows[i].status = "Needs Review"

\* C6: when several ID keys share the canonical name of a name key, a pass of the
\* alias loop merges the name key into an ID key K only if some session of the name
\* key overlaps, touches or lies within 7 minutes of a session K holds at that moment;
\* if no ID key qualifies the name key stays, is recorded as ambiguous, and its
\* verdict is "Needs Review".
SeveralIdsMergeOnlyWhenNear == [][AliasStepRule]_vars /\ []AmbiguousAliasesNeedReview

\* two ID keys share the name, none is near the name key: it is kept for review
AmbiguousAliasReviewed ==
    /\ pc = "done"
    /\ {KeyId10001, KeyId10002} \subseteq DOMAIN by_key
    /\ KeyNameJane \in ambiguous_aliases
    /\ \E i \in RowsOfKey(KeyNameJane) : attendance_rows[i].status = "Needs Review"

\* the log holds the two ID keys and the name key of one canonical name and no other
\* key; the name key's sessions overlap sessions of the second ID key and touch or
\* lie within 7 minutes of the first ID key's sessions without overlapping them
ConflictScenario ==
    /\ pc \in {"decided", "done"}
    /\ LogKeys = {KeyId10001, KeyId10002, KeyNameJane}
    /\ SessionsOverlap(LogSessions(KeyNameJane), LogSessions(KeyId10002))
    /\ SessionsWithin(LogSessions(KeyNameJane), LogSessions(KeyId10001), AliasGapSeconds)
    /\ ~SessionsOverlap(LogSessions(KeyNameJane), LogSessions(KeyId10001))

\* the ID key of the first row of the log that carries an ID
FirstIdKeyInLog ==
    LET i == CHOOSE j \in DOMAIN rows :
                /\ IsErpKey(NameInfo[rows[j].raw_name].key)
                /\ \A h \in 1..(j - 1) : ~IsErpKey(NameInfo[rows[h].raw_name].key)
    IN  NameInfo[rows[i].raw_name].key

\* C7: with ID keys 10001 and 10002 and a name key of the same canonical name, a name
\* key whose sessions overlap the second ID key's sessions is merged into neither ID
\* key and is flagged ambiguous, also when its sessions are adjacent to the first's.
ConflictingAliasIsAmbiguous ==
    ConflictScenario =>
        /\ KeyNameJane \in DOMAIN by_key
        /\ alias_merges = <<>>
        /\ KeyNameJane \in ambiguous_aliases

\* C7, as the program has it: in that scenario the name key is merged into whichever
\* of the two ID keys comes first in the log, is not flagged ambiguous and gets no
\* verdict of its own; the overlap with an ID key's sessions makes the two compatible.
ConflictingAliasIsMergedIntoFirstId ==
    ConflictScenario =>
        /\ KeyNameJane \notin DOMAIN by_key
        /\ alias_merges = <<<<KeyNameJane, FirstIdKeyInLog>>>>
        /\ ambiguous_aliases = {}
        /\ RowsOfKey(KeyNameJane) = {}
        /\ \E i \in RowsOfKey(FirstIdKeyInLog) :
              /\ attendance_rows[i].match_source = "alias_merge"
              /\ attendance_rows[i].status # "Needs Review"

\* the name key overlaps ID 10002 and is merged into ID 10001, which it only touches
AdjacentIdTakesConflictingAlias ==
    /\ ConflictScenario
    /\ pc = "done"
    /\ alias_merges = <<<<KeyNameJane, KeyId10001>>>>

\* the IDs that the rows of the log carry, and the canonical names of its display names
LogErps == {NameInfo[rows[i].raw_name].erp : i \in DOMAIN rows} \ {<<>>}
LogCanonNames == {RawCanon[rows[i].raw_name] : i \in DOMAIN rows}

IsRosterOnlyRow(row) ==
    /\ row.status = "Absent"
    /\ row.attended_raw = 0
    /\ row.attended_decision = 0
    /\ row.issues = <<Issue("Not in Zoom log (Roster)", 0, NoKey)>>
    /\ row.match_source = "roster-only"

\* C9: every roster ID that does not appear in the log yields exactly one synthetic
\* Attendance row (Absent, 0 attended minutes, reason "not in log"), also when the
\* name of the roster entry occurs in the log.
AbsentRosterIdYieldsOneRow ==
    pc = "done" =>
        \A i \in DOMAIN roster_df :
            roster_df[i].ERP \notin LogErps =>
                /\ Cardinality(RowsOfKey(ErpPrefix \o roster_df[i].ERP)) = 1
                /\ \A j \in RowsOfKey(ErpPrefix \o roster_df[i].ERP) :
                      IsRosterOnlyRow(attendance_rows[j])

\* C9, as the program has it: a roster ID that does not appear in the log yields at
\* most one synthetic Attendance row (Absent, 0 attended minutes, reason "not in log"),
\* and yields it exactly when the canonical name of the roster entry is not the
\* canonical name of any display name of the log.
AbsentRosterIdYieldsOneRowUnlessNameSeen ==
    pc = "done" =>
        \A i \in DOMAIN roster_df :
            roster_df[i].ERP \notin LogErps =>
                LET found == RowsOfKey(ErpPrefix \o roster_df[i].ERP)
                IN  /\ Cardinality(found) <= 1
                    /\ Cardinality(found) = 1
                          <=> _canon_name(roster_df[i].RosterName) \notin LogCanonNames
                    /\ \A j \in found : IsRosterOnlyRow(attendance_rows[j])

\* the log lacks roster ID 10003 and shows the name of its roster entry in capitals:
\* the entry gets no row
RosterNameSeenAndUnseen ==
    /\ pc = "done"
    /\ Len(roster_df) = 1
    /\ roster_df[1].ERP = Roster10003
    /\ roster_df[1].RosterCanon = RawCanon[NameUpper]
    /\ \E i \in DOMAIN rows : rows[i].raw_name = NameUpper
    /\ RowsOfKey(ErpPrefix \o Roster10003) = {}

MergedAwayKeys == {alias_merges[i][1] : i \in DOMAIN alias_merges}

\* C10: in the final Attendance rows no key occurs twice; every key of the log that
\* resolution left active has exactly one row, a verdict from the log; a key merged
\* away has none; and a row injected from the roster carries a key that no row of the
\* log has.
EveryKeyHasOneAttendanceRow ==
    pc = "done" =>
        /\ \A i, j \in DOMAIN attendance_rows :
              i # j => attendance_rows[i].Key # attendance_rows[j].Key
        /\ DOMAIN by_key = LogKeys \ MergedAwayKeys
        /\ \A k \in LogKeys \ MergedAwayKeys :
              /\ Cardinality(RowsOfKey(k)) = 1
              /\ \A i \in RowsOfKey(k) : attendance_rows[i].match_source # "roster-only"
        /\ \A k \in MergedAwayKeys : RowsOfKey(k) = {}
        /\ \A i \in DOMAIN attendance_rows :
              attendance_rows[i].match_source = "roster-only"
                  => attendance_rows[i].Key \notin LogKeys

\* a log with a merged alias, and a roster that names an ID of the log next to one the
\* log lacks: the final rows hold the merge target and a row from the roster
MergedAliasAndRosterRow ==
    /\ pc = "done"
    /\ MergedAwayKeys # {}
    /\ Len(roster_df) = MaxRoster
    /\ \E i \in DOMAIN roster_df : roster_df[i].ERP \in LogErps
    /\ \E i \in DOMAIN attendance_rows : attendance_rows[i].match_source = "roster-only"

\* how often x occurs in the list seq
Count(seq, x) == Cardinality({i \in DOMAIN seq : seq[i] = x})

ResolutionComplete == pc \in {"decided", "done"} \/ (pc = "resolve" /\ pending = <<>>)

\* the rows of the log that belong to key k after the merges: its own and those of the
\* keys the audit trail says were merged into it
HeldRows(k) ==
    {i \in DOMAIN rows :
        LET own == NameInfo[rows[i].raw_name].key
        IN  own = k \/ \E m \in DOMAIN alias_merges : alias_merges[m] = <<own, k>>}

RowInterval(i) == <<rows[i].join_ts, rows[i].leave_ts>>

\* C11: once the alias loop has finished, every row of the log belongs to exactly one
\* active key; the session records, intervals (all, well-named, flagged) and raw names
\* an active key holds are those of its rows, each as often as the log has it; the
\* audit trail has one (source, target) entry per merged key; and a merged key is in
\* none of the per-key maps.
ResolutionConservesSessions ==
    ResolutionComplete =>
        /\ \A i \in DOMAIN rows :
              Cardinality({k \in DOMAIN by_key : i \in HeldRows(k)}) = 1
        /\ \A k \in DOMAIN by_key :
              LET held == HeldRows(k)
                  flagged == {i \in held : NameInfo[rows[i].raw_name].pen_flag = -1}
                  e == by_key[k]
              IN  /\ Len(e.session_records) = Cardinality(held)
                  /\ \A i \in held :
                        Count(e.session_records, rows[i])
                            = Cardinality({j \in held : rows[j] = rows[i]})
                  /\ Len(e.intervals) = Cardinality(held)
                  /\ \A i \in held :
                        Count(e.intervals, RowInterval(i))
                            = Cardinality({j \in held : RowInterval(j) = RowInterval(i)})
                  /\ Len(e.bad_intervals) = Cardinality(flagged)
                  /\ Len(e.good_intervals) = Cardinality(held \ flagged)
                  /\ \A i \in flagged : Count(e.bad_intervals, RowInterval(i)) > 0
                  /\ \A i \in held \ flagged : Count(e.good_intervals, RowInterval(i)) > 0
                  /\ e.raw_names = {rows[i].raw_name : i \in held}
        /\ {alias_merges[m][1] : m \in DOMAIN alias_merges} = LogKeys \ DOMAIN by_key
        /\ \A m, n \in DOMAIN alias_merges :
              alias_merges[m][1] = alias_merges[n][1] => m = n
        /\ \A m \in DOMAIN alias_merges :
              /\ alias_merges[m][1] \notin DOMAIN by_key
              /\ alias_merges[m][2] \in DOMAIN by_key

\* a name key with two rows was merged into an ID key that had a row of its own
MergedKeyHoldsAllSessions ==
    /\ pc = "done"
    /\ alias_merges = <<<<KeyNameJane, KeyId10001>>>>
    /\ Cardinality(HeldRows(KeyId10001)) = MaxRows
    /\ Cardinality({i \in DOMAIN rows : rows[i].raw_name = NameUpper}) > 1

\* the cells [c*CellSeconds, (c+1)*CellSeconds) inside a session of one of the rows
CellsOfRows(held) ==
    {c \in 0..2 : \E i \in held : /\ rows[i].join_ts <= c * CellSeconds
                                  /\ (c + 1) * CellSeconds <= rows[i].leave_ts}

\* the minutes key k attended under a flagged name outside every session it attended
\* under a well-formed name
FlaggedOnlyMinutes(k) ==
    LET held == HeldRows(k)
        flagged == {i \in held : NameInfo[rows[i].raw_name].pen_flag = -1}
    IN  Cardinality(CellsOfRows(flagged) \ CellsOfRows(held \ flagged))
            * CellSeconds * UnitsPerSecond

(* C20: the naming penalty of an identity is -1 iff its minutes attended under flagged
   names and not covered by a session under a well-formed name strictly exceed
   penalty_tolerance_minutes and no 'naming' exemption is set for its key; it is 0
   otherwise. *)
NamingPenaltyIffFlaggedOnlyMinutesExceed ==
    pc = "decided" =>
        \A i \in DOMAIN attendance_rows :
            LET k == attendance_rows[i].Key
                exempt == k \in DOMAIN conf.exemptions /\ conf.exemptions[k].naming
            IN  attendance_rows[i].naming_penalty =
                    IF FlaggedOnlyMinutes(k) > conf.penalty_tolerance_minutes /\ ~exempt
                    THEN -1 ELSE 0

\* the Attendance row of key k had the same run been made with no exemptions
RowWithoutExemptions(k) ==
    VerdictRow(by_key, k, alias_merges, AmbiguousNameKeys(by_key, ambiguous_aliases),
               [conf EXCEPT !.exemptions = <<>>], run)

\* the flag the caller set for key k, FALSE when the mapping has no entry for k
Waived(k, flag) == k \in DOMAIN conf.exemptions /\ conf.exemptions[k][flag]

(* C21: run with an exemptions mapping, every identity has the raw and decision
   attended minutes, the thresholds and the status it has without the mapping; the
   'overlap' and 'reconnect' flags of a key remove that key's overlapping and
   reconnects tags and no other tag, 'naming' sets that key's penalty to 0, and the
   row of a key the mapping does not name is the row it has without the mapping. *)
ExemptionsChangeOnlyTagsAndPenalty ==
    pc = "decided" =>
        \A i \in DOMAIN attendance_rows :
            LET row == attendance_rows[i]
                k == row.Key
                base == RowWithoutExemptions(k)
                kept(t) == /\ ~(t.tag = "Duplicate account - overlapping"
                                    /\ Waived(k, "overlap"))
                           /\ ~(t.tag = "Duplicate account - reconnects"
                                    /\ Waived(k, "reconnect"))
            IN  /\ row.attended_raw = base.attended_raw
                /\ row.attended_decision = base.attended_decision
                /\ row.threshold_raw = base.threshold_raw
                /\ row.threshold_decision = base.threshold_decision
                /\ row.status = base.status
                /\ row.zoom_names = base.zoom_names
                /\ row.match_source = base.match_source
                /\ row.issues = SelectSeq(base.issues, kept)
                /\ row.naming_penalty =
                      IF Waived(k, "naming") THEN 0 ELSE base.naming_penalty
                /\ k \notin DOMAIN conf.exemptions => row = base

\* the ID key is exempt from everything and loses its overlap tag and its penalty,
\* while the flagged-name identity beside it keeps its penalty
ExemptKeyBesideUnexemptKey ==
    /\ pc = "decided"
    /\ Len(attendance_rows) = 2
    /\ \E i, j \in DOMAIN attendance_rows :
          /\ attendance_rows[i].Key = KeyId10001
          /\ Waived(KeyId10001, "overlap")
          /\ Waived(KeyId10001, "naming")
          /\ \E n \in DOMAIN RowWithoutExemptions(KeyId10001).issues :
                RowWithoutExemptions(KeyId10001).issues[n].tag
                    = "Duplicate account - overlapping"
          /\ \A n \in DOMAIN attendance_rows[i].issues :
                attendance_rows[i].issues[n].tag # "Duplicate account - overlapping"
          /\ attendance_rows[j].Key = NameInfo[NameOther].key
          /\ attendance_rows[j].naming_penalty = -1

----------------------------------------------------------------------------
(* A request from the adapter to its answer: column detection, the total class
   minutes, the writer, process_request and the adapters of handler.py and cli.py.
   The cells of the log are held as _parse_dt and pd.to_numeric leave them: Missing
   for a join or leave time that does not parse, 0 for a duration that is no number. *)

\* df["_join"] and df["_leave"] (lines 339-340): None throughout without the column
ParsedJoins(q) == IF q.join_col THEN {q.cells[i].join : i \in DOMAIN q.cells} ELSE {Missing}
ParsedLeaves(q) ==
    IF q.leave_col THEN {q.cells[i].leave : i \in DOMAIN q.cells} ELSE {Missing}

\* line 341
has_times(q) ==
    /\ q.join_col /\ q.leave_col
    /\ ParsedJoins(q) \ {Missing} # {}
    /\ ParsedLeaves(q) \ {Missing} # {}

\* the raise of _detect_columns (lines 254-256), "" when it returns
DetectColumnsError(q) ==
    IF ~q.name_col THEN "Could not detect participant name column"
    ELSE IF (~q.join_col \/ ~q.leave_col) /\ ~q.duration_col
         THEN "No join/leave or duration columns found" ELSE ""

SetMax(S) == CHOOSE x \in S : \A y \in S : y <= x
SetMin(S) == CHOOSE x \in S : \A y \in S : x <= y

\* lines 343-354: the total class minutes, or the error raised instead
TotalOrError(q) ==
    IF q.override_total_minutes > 0
    THEN [error |-> "", total |-> q.override_total_minutes]
    ELSE IF has_times(q)
    THEN LET jo == ParsedJoins(q) \ {Missing}
             le == ParsedLeaves(q) \ {Missing}
         IN  IF jo = {} \/ le = {}
             THEN [error |-> "Timestamps present but unparsable", total |-> 0]
             ELSE [error |-> "",
                   total |-> (SetMax(le) - SetMin(jo)) * UnitsPerSecond]
    ELSE IF q.duration_col
    THEN [error |-> "", total |-> SetMax({q.cells[i].dur : i \in DOMAIN q.cells})]
    ELSE [error |-> "Could not determine total class duration", total |-> 0]

\* line 409: without timestamps the duration column is read, also when there is none
IngestError(q) ==
    IF ~has_times(q) /\ ~q.duration_col THEN "KeyError: None" ELSE ""

\* lines 732-754: openpyxl is tried, then xlsxwriter; what a failed engine leaves at the
\* output path is leftover; the error of a failed engine is kept and then passed over
WriteOutput(openpyxl_ok, xlsxwriter_ok, leftover) ==
    [out_file |-> IF openpyxl_ok \/ xlsxwriter_ok THEN "complete" ELSE leftover,
     last_err |-> ~openpyxl_ok,
     error |-> ""]

\* line 779: open(out_path, 'rb').read()
ReadOutputError(file) == IF file = "absent" THEN "FileNotFoundError" ELSE ""

\* what process_request returns: the bytes of the file, and no (bytes, meta) pair
ProcessRequestValue(file) == [kind |-> "bytes", file |-> file]

\* out_bytes, meta = ... (handler.py line 33, cli.py line 40): bytes are no pair
UnpackError(value) ==
    IF value.kind = "pair" THEN "" ELSE "ValueError: too many values to unpack"

\* handler.py lines 32-47
HttpAnswer(exc, value) ==
    LET err == IF exc # "" THEN exc ELSE UnpackError(value)
    IN  IF err # ""
        THEN [sent |-> TRUE, status |-> 400, ok |-> FALSE, error |-> err, file |-> "none"]
        ELSE [sent |-> TRUE, status |-> 200, ok |-> TRUE, error |-> "", file |-> value.file]

\* cli.py lines 40-46 and 74-90; status is the exit code
CliAnswer(exc, value) ==
    LET err == IF exc # "" THEN exc ELSE UnpackError(value)
    IN  IF err # ""
        THEN [sent |-> TRUE, status |-> 1, ok |-> FALSE, error |-> err, file |-> "none"]
        ELSE [sent |-> TRUE, status |-> 0, ok |-> TRUE, error |-> "", file |-> value.file]

(* Requests: either adapter, any set of detected columns, with or without a total
   override, and a log of up to MaxCells rows. *)
MaxCells == 2

CellChoices ==
    [join : {Missing, 0}, leave : {Missing, 10 * SecondsPerMinute},
     dur : {0, Minutes(10)}]

RequestChoices ==
    [adapter : {"http", "cli"},
     name_col : BOOLEAN, join_col : BOOLEAN, leave_col : BOOLEAN, duration_col : BOOLEAN,
     override_total_minutes : {0, Minutes(50)},
     cells : {<<>>}]

RequestInit ==
    /\ pc = "request"
    /\ req \in RequestChoices
    /\ out_file = "absent" /\ raised = "" /\ resp = NoResponse
    /\ EngineIdle
    /\ StudentIdle
    /\ DecideIdle
    /\ PipelineIdle

\* one more row of the uploaded log
AddCell ==
    /\ pc = "request"
    /\ Len(req.cells) < MaxCells
    /\ \E cell \in CellChoices : req' = [req EXCEPT !.cells = Append(@, cell)]
    /\ UNCHANGED <<pc, out_file, raised, resp>>
    /\ UNCHANGED <<engineVars, studentVars, decideVars, pipelineVars>>

\* _detect_columns (line 327)
DetectColumns ==
    /\ pc = "request"
    /\ req.cells # <<>>
    /\ raised' = DetectColumnsError(req)
    /\ pc' = IF raised' # "" THEN "raised" ELSE "detected"
    /\ UNCHANGED <<req, out_file, resp>>
    /\ UNCHANGED <<engineVars, studentVars, decideVars, pipelineVars>>

\* lines 339-360
DetermineTotal ==
    /\ pc = "detected"
    /\ LET t == TotalOrError(req)
       IN  /\ raised' = t.error
           /\ pc' = IF t.error # "" THEN "raised" ELSE "totalled"
           /\ run' = IF t.error # "" THEN run
                     ELSE [has_times |-> has_times(req)] @@ RunValues(conf, t.total)
    /\ UNCHANGED <<req, out_file, resp>>
    /\ UNCHANGED <<engineVars, studentVars, conf, verdict, pipelineVars>>

\* lines 374-688: the dictionaries and the verdicts, by timestamps or by durations
Compute ==
    /\ pc = "totalled"
    /\ raised' = IngestError(req)
    /\ pc' = IF raised' # "" THEN "raised" ELSE "computed"
    /\ UNCHANGED <<req, out_file, resp>>
    /\ UNCHANGED <<engineVars, studentVars, decideVars, pipelineVars>>

\* lines 732-756: the writer, and the return of process_zoom_attendance
Write ==
    /\ pc = "computed"
    /\ \E openpyxl_ok, xlsxwriter_ok \in BOOLEAN, leftover \in {"absent", "partial"} :
          LET w == WriteOutput(openpyxl_ok, xlsxwriter_ok, leftover)
          IN  /\ out_file' = w.out_file
              /\ raised' = w.error
              /\ pc' = IF w.error # "" THEN "raised" ELSE "returned"
    /\ UNCHANGED <<req, resp>>
    /\ UNCHANGED <<engineVars, studentVars, decideVars, pipelineVars>>

\* line 779
ReadOutput ==
    /\ pc = "returned"
    /\ raised' = ReadOutputError(out_file)
    /\ pc' = IF raised' # "" THEN "raised" ELSE "bytes"
    /\ UNCHANGED <<req, out_file, resp>>
    /\ UNCHANGED <<engineVars, studentVars, decideVars, pipelineVars>>

\* the adapter answers: an exception of process_request, or the value it returned
Respond ==
    /\ pc \in {"raised", "bytes"}
    /\ pc' = "responded"
    /\ resp' = IF req.adapter = "http"
               THEN HttpAnswer(raised, ProcessRequestValue(out_file))
               ELSE CliAnswer(raised, ProcessRequestValue(out_file))
    /\ UNCHANGED <<req, out_file, raised>>
    /\ UNCHANGED <<engineVars, studentVars, decideVars, pipelineVars>>

RequestNext ==
    AddCell \/ DetectColumns \/ DetermineTotal \/ Compute \/ Write \/ ReadOutput
    \/ Respond

SpecRequest == RequestInit /\ [][RequestNext]_vars

\* the log has join and leave headers, none of its join and leave times parses, and
\* the request gives no total
TimestampsUnparsable ==
    /\ req # NoRequest
    /\ req.join_col /\ req.leave_col
    /\ \A i \in DOMAIN req.cells :
          req.cells[i].join = Missing /\ req.cells[i].leave = Missing
    /\ req.override_total_minutes = 0

\* C12: a run on a log whose join and leave headers are present but whose timestamps
\* all fail to parse, without a total override, ends with an error and writes no
\* output, with or without a duration column: it never gets a total, never reaches
\* the writer, and the adapter is handed an exception.
UnparsableTimestampsFailTheRun ==
    (TimestampsUnparsable /\ pc # "request") =>
          /\ pc \in {"detected", "raised", "responded"}
          /\ out_file = "absent"
          /\ pc \in {"raised", "responded"} => raised # ""

\* C13: process_zoom_attendance returns normally only when the output is written in
\* full; when every writer engine fails the run ends with an error.
ReturnsOnlyWithCompleteOutput ==
    pc \in {"returned", "bytes"} => out_file = "complete"

\* C14: the POST /api/process adapter answers with the spreadsheet (status 200, body
\* the bytes of the output file) whenever process_request returned, and answers 400
\* only when process_request raised.
HttpAnswersFileUnlessProcessingRaised ==
    (pc = "responded" /\ req.adapter = "http") =>
          /\ raised = "" => (resp.status = 200 /\ resp.file = out_file)
          /\ resp.status = 400 => raised # ""

====
